---- MODULE Spec2Model ----
(***************************************************************************)
(* Product carousel script (yavuzselim_ercikan.js): one page that loads a  *)
(* product list from localStorage or the network, renders it, binds the    *)
(* next / previous / item / favorite handlers and restores the favorites.  *)
(*                                                                         *)
(* JavaScript values are modelled with their type: a product id is         *)
(* <<"number", text>> or <<"string", text>>, so that the template literal  *)
(* of line 74, jQuery's .data() of lines 222 and 234, the attribute        *)
(* selector of line 249 and the strict comparisons of lines 223 and 241    *)
(* each do what they do in the browser.                                    *)
(***************************************************************************)
EXTENDS Integers, Sequences, FiniteSets, TLC

VARIABLES
    cache,       \* localStorage["productCarouselData"]
    favs,        \* localStorage["favorites"]
    pc,          \* position of init(): "start", "fetching", "ready", "failed"
    products,    \* the products array init() hands to buildHTML and setEvents
    dom,         \* the rendered .carousel-item elements, in document order
    viewport,    \* width of .carousel-track-container
    scrollLeft,  \* scrollLeft of .carousel-track-container
    anim,        \* jQuery fx queue of the container: targets, head is running
    event,       \* the click inside an item that was dispatched last, if no
                 \* other event followed it, and what its handlers emitted
    fetches,     \* number of fetch(productAPI) calls issued so far
    hist,        \* one record per initialization of the page, oldest first
    run,         \* Next clicks since load, each made at rest; Untracked otherwise
    other        \* a second page (tab) opened on the same localStorage: the
                 \* position of its init(), its products and its items

vars == <<cache, favs, pc, products, dom, viewport, scrollLeft, anim, event,
          fetches, hist, run, other>>

----------------------------------------------------------------------------
(* Bounds of the model *)

MaxN == 3           \* products in the remote catalogue
MaxFavLen == 2      \* length of the favorites sequence found in storage
MaxVisible == 2     \* items the viewport shows
MaxAnim == 2        \* transitions queued on the container at once
MaxLoads == 2       \* initializations of the page in one behaviour
ItemWidth == 2      \* outerWidth(true) of a rendered item
Frame == 1          \* scroll distance covered by one animation tick

Untracked == 0 - 1

Min(a, b) == IF a <= b THEN a ELSE b
Max(a, b) == IF a >= b THEN a ELSE b
Last(s) == s[Len(s)]

----------------------------------------------------------------------------
(* JavaScript values *)

Num(t) == <<"number", t>>
Str(t) == <<"string", t>>

NoUrl == "undefined"

Digits == <<"1", "2", "3", "4", "5", "6", "7", "8", "9">>
NumericText == {Digits[k] : k \in 1..9}

\* `${product.id}` of line 74 and `${id}` of line 249: String(value).
ToStr(v) == v[2]

\* $(el).data("id"): jQuery turns an attribute text that reads as a number
\* into that number (+data + "" === data) and leaves any other text a string.
dataId(text) == IF text \in NumericText THEN Num(text) ELSE Str(text)

\* product?.url is truthy
Truthy(u) == u # NoUrl

----------------------------------------------------------------------------
(* localStorage and JSON *)

Absent == [kind |-> "absent", val |-> <<>>]
Corrupt == [kind |-> "corrupt", val |-> <<>>]

\* JSON.stringify of an array of numbers, strings and plain records: the text
\* is kept as the value it denotes, types included.
JSONstringify(v) == [kind |-> "json", val |-> v]

\* JSON.parse(localStorage.getItem(key)): getItem gives null for a missing
\* key and JSON.parse(null) is null; an unparseable text throws SyntaxError.
JSONparse(s) ==
    CASE s.kind = "absent" -> [kind |-> "null", val |-> <<>>]
      [] s.kind = "corrupt" -> [kind |-> "throw", val |-> <<>>]
      [] OTHER -> [kind |-> "value", val |-> s.val]

\* JSON.parse(localStorage.getItem(favoritesKey)) || []
storedFavorites(s) == JSONparse(s).val

----------------------------------------------------------------------------
(* The remote catalogue and the feeds the endpoint can answer with *)

CatalogueId(k) ==
    CASE k = 2 -> Str("2")
      [] k = 3 -> Str("a")
      [] OTHER -> Num(Digits[k])

CatalogueUrl(k) == IF k \in {3, 4} THEN NoUrl ELSE "https://shop/" \o Digits[k]

Product(k) == [id |-> CatalogueId(k), url |-> CatalogueUrl(k)]

RECURSIVE Pick(_, _)
\* the catalogue entries of S, in catalogue order, from entry k on
Pick(S, k) ==
    IF k > MaxN THEN <<>>
    ELSE IF k \in S THEN <<Product(k)>> \o Pick(S, k + 1)
    ELSE Pick(S, k + 1)

Feeds == {Pick(S, 1) : S \in SUBSET (1..MaxN)}

\* identifiers a favorites sequence found in storage may hold: the id of
\* catalogue entry 2 (which a feed may or may not include) as the number
\* .data("id") yields for it and as the string the feed gives
FavValues == {Num("2"), Str("2")}

SeqsUpTo(S, n) == UNION {[1..m -> S] : m \in 0..n}

InitialFavorites ==
    {Absent} \cup {JSONstringify(f) : f \in SeqsUpTo(FavValues, MaxFavLen)}

InitialCaches == {Absent, Corrupt}

\* container widths that show from one item up to MaxVisible items, a whole
\* number of items or not
Viewports == ItemWidth..(MaxVisible * ItemWidth)

WholeTrack == MaxN * ItemWidth

----------------------------------------------------------------------------
(* buildHTML *)

\* buildHTML that renders the products last to first
buildHTMLReversed(ps) ==
    [i \in 1..Len(ps) |->
        [dataId |-> ToStr(ps[Len(ps) + 1 - i].id), favorited |-> FALSE]]

\* one .carousel-item per product, data-id="${product.id}", no class on
\* its .carousel-fav button
buildHTML(ps) ==
    [i \in 1..Len(ps) |-> [dataId |-> ToStr(ps[i].id), favorited |-> FALSE]]

----------------------------------------------------------------------------
(* setEvents: layout read at bind time and by the scroll handlers *)

\* $items.outerWidth(true): undefined for an empty set
itemWidth(d) == IF Len(d) = 0 THEN Untracked ELSE ItemWidth

\* $track[0].scrollWidth - $trackContainer.width()
maxScrollLeft(d, v) == Max(Len(d) * ItemWidth, v) - v

\* the .carousel-next handler without its else branch: no clamp
nextTargetUnclamped(cur, d, v) == cur + ItemWidth

\* target of the .carousel-next handler; with itemWidth undefined the sum is
\* NaN and the comparison false
nextTarget(cur, d, v) ==
    IF itemWidth(d) # Untracked /\ cur + itemWidth(d) <= maxScrollLeft(d, v)
    THEN cur + itemWidth(d)
    ELSE maxScrollLeft(d, v)

\* the .carousel-prev handler without its else branch: no clamp at 0
prevTargetUnclamped(cur, d) == cur - ItemWidth

\* target of the .carousel-prev handler
prevTarget(cur, d) ==
    IF itemWidth(d) # Untracked /\ cur - itemWidth(d) >= 0
    THEN cur - itemWidth(d)
    ELSE 0

----------------------------------------------------------------------------
(* setEvents: item click, favorite click, restore *)

open(u) == [op |-> "window.open", arg |-> u]
error(id) == [op |-> "console.error", arg |-> ToStr(id)]

\* products.find((p) => p.id === productId): index of the first match, 0 if none
find(ps, productId) ==
    IF \E k \in 1..Len(ps) : ps[k].id = productId
    THEN CHOOSE k \in 1..Len(ps) :
            /\ ps[k].id = productId
            /\ \A j \in 1..(k - 1) : ps[j].id # productId
    ELSE 0

\* the .carousel-item click handler on item i: what it emits
itemClick(ps, d, i) ==
    LET productId == dataId(d[i].dataId)
        k == find(ps, productId)
    IN IF k # 0 /\ Truthy(ps[k].url)
       THEN <<open(ps[k].url)>>
       ELSE <<error(productId)>>

\* favorites.filter((id) => id !== productId)
RECURSIVE filterOut(_, _)
filterOut(f, productId) ==
    IF f = <<>> THEN <<>>
    ELSE IF Head(f) # productId
         THEN <<Head(f)>> \o filterOut(Tail(f), productId)
         ELSE filterOut(Tail(f), productId)

\* favClick without the filter of line 241: an unfavorited id stays stored
favClickKeeps(d, s, i) ==
    LET productId == dataId(d[i].dataId)
        isFavorited == ~d[i].favorited
        favorites == storedFavorites(s)
    IN [dom |-> [d EXCEPT ![i].favorited = isFavorited],
        favs |-> JSONstringify(IF isFavorited
                               THEN Append(favorites, productId)
                               ELSE favorites)]

\* favClick that does not read storage: it stores the ids of the items that
\* carry the favorited class in this page
favClickFromDom(d, s, i) ==
    LET after == [d EXCEPT ![i].favorited = ~d[i].favorited]
        marked == SelectSeq(after, LAMBDA e : e.favorited)
    IN [dom |-> after,
        favs |-> JSONstringify([k \in 1..Len(marked) |-> dataId(marked[k].dataId)])]

\* the .carousel-fav click handler on item i: the DOM and the storage after it
favClick(d, s, i) ==
    LET productId == dataId(d[i].dataId)
        isFavorited == ~d[i].favorited
        favorites == storedFavorites(s)
    IN [dom |-> [d EXCEPT ![i].favorited = isFavorited],
        favs |-> JSONstringify(IF isFavorited
                               THEN Append(favorites, productId)
                               ELSE filterOut(favorites, productId))]

\* the .carousel-fav handler without its e.stopPropagation()
bubbles == FALSE

\* e.stopPropagation() is the first statement of the .carousel-fav handler
stopsPropagation == TRUE

\* what a click on item i's favorite control emits: the .carousel-fav
\* handler emits nothing; the click then bubbles to .carousel-item unless
\* propagation was stopped
favClickEmits(ps, d, i) ==
    IF stopsPropagation THEN <<>> ELSE itemClick(ps, d, i)

\* setEvents without its restore loop
restoreNothing(d, s) == d

\* favorites.forEach(id => $(`.carousel-item[data-id="${id}"] .carousel-fav`)
\*                            .addClass("favorited"))
restore(d, s) ==
    LET favorites == storedFavorites(s)
    IN [i \in 1..Len(d) |->
          [d[i] EXCEPT !.favorited =
              d[i].favorited
              \/ \E k \in 1..Len(favorites) : ToStr(favorites[k]) = d[i].dataId]]

\* buildHTML(products); buildCSS(); setEvents(products)
render(ps, s) == restore(buildHTML(ps), s)

----------------------------------------------------------------------------
(* State machine *)

NoEvent == [name |-> "none", item |-> 0, emits |-> <<>>]

\* no second page is open
Closed == [pc |-> "closed", products |-> <<>>, dom |-> <<>>]

Load(src, end, shown) == [src |-> src, end |-> end, shown |-> shown]

\* the page before init() runs: nothing rendered, nothing bound
InitPage ==
    /\ pc = "start"
    /\ products = <<>>
    /\ dom = <<>>
    /\ scrollLeft = 0
    /\ anim = <<>>
    /\ event = NoEvent
    /\ fetches = 0
    /\ hist = <<>>
    /\ run = 0
    /\ other = Closed

\* any storage content, in a container wide enough to show the whole track
Init ==
    /\ cache \in InitialCaches
    /\ favs \in InitialFavorites
    /\ viewport = WholeTrack
    /\ InitPage

\* empty storage, in a container narrower than the track may be
InitScroll ==
    /\ cache = Absent
    /\ favs = Absent
    /\ viewport \in Viewports
    /\ InitPage

\* init() up to its first suspension point, or to its end when it has none
InitRun ==
    /\ pc = "start"
    /\ LET parsed == JSONparse(cache)
       IN CASE parsed.kind = "throw" ->
                 /\ pc' = "failed"
                 /\ hist' = Append(hist, Load("none", "failed", <<>>))
                 /\ UNCHANGED <<products, dom, fetches>>
            [] parsed.kind = "null" ->
                 /\ pc' = "fetching"
                 /\ fetches' = fetches + 1
                 /\ hist' = Append(hist, Load("fetch", "pending", <<>>))
                 /\ UNCHANGED <<products, dom>>
            [] OTHER ->
                 /\ pc' = "ready"
                 /\ products' = parsed.val
                 /\ dom' = render(parsed.val, favs)
                 /\ hist' = Append(hist, Load("cache", "ready", parsed.val))
                 /\ UNCHANGED fetches
    /\ UNCHANGED <<cache, favs, viewport, scrollLeft, anim, event, run, other>>

\* FetchFail with a retry: the request is issued again
FetchFailRetries ==
    /\ pc = "fetching"
    /\ fetches < MaxLoads
    /\ fetches' = fetches + 1
    /\ UNCHANGED <<cache, favs, pc, products, dom, viewport, scrollLeft, anim,
                   event, hist, run, other>>

\* the response is not ok: fetchProducts throws and init() rejects
FetchFail ==
    /\ pc = "fetching"
    /\ pc' = "failed"
    /\ hist' = [hist EXCEPT ![Len(hist)].end = "failed"]
    /\ UNCHANGED <<cache, favs, products, dom, viewport, scrollLeft, anim,
                   event, fetches, run, other>>

\* FetchOk without the localStorage.setItem of line 49
FetchOkUncached ==
    /\ pc = "fetching"
    /\ \E body \in Feeds :
          /\ products' = body
          /\ dom' = render(body, favs)
          /\ hist' = [hist EXCEPT ![Len(hist)].end = "ready",
                                  ![Len(hist)].shown = body]
    /\ pc' = "ready"
    /\ UNCHANGED <<cache, favs, viewport, scrollLeft, anim, event, fetches,
                   run, other>>

\* FetchOk that caches only the first product of the response
FetchOkCachesHead ==
    /\ pc = "fetching"
    /\ \E body \in Feeds :
          /\ products' = body
          /\ cache' = JSONstringify(SubSeq(body, 1, Min(1, Len(body))))
          /\ dom' = render(body, favs)
          /\ hist' = [hist EXCEPT ![Len(hist)].end = "ready",
                                  ![Len(hist)].shown = body]
    /\ pc' = "ready"
    /\ UNCHANGED <<favs, viewport, scrollLeft, anim, event, fetches, run,
                   other>>

\* the response is ok: init() resumes after the await and runs to its end
FetchOk ==
    /\ pc = "fetching"
    /\ \E body \in Feeds :
          /\ products' = body
          /\ cache' = JSONstringify(body)
          /\ dom' = render(body, favs)
          /\ hist' = [hist EXCEPT ![Len(hist)].end = "ready",
                                  ![Len(hist)].shown = body]
    /\ pc' = "ready"
    /\ UNCHANGED <<favs, viewport, scrollLeft, anim, event, fetches, run,
                   other>>

AtRest == anim = <<>>

\* a .carousel-next handler that adds the width to the target of the last
\* queued transition instead of reading scrollLeft()
ClickNextRemembered ==
    /\ pc = "ready"
    /\ Len(anim) < MaxAnim
    /\ anim' = Append(anim, nextTarget(IF anim = <<>> THEN scrollLeft ELSE Last(anim),
                                       dom, viewport))
    /\ event' = NoEvent
    /\ run' = IF run # Untracked /\ AtRest /\ run * ItemWidth <= maxScrollLeft(dom, viewport)
              THEN run + 1 ELSE Untracked
    /\ UNCHANGED <<cache, favs, pc, products, dom, viewport, scrollLeft,
                   fetches, hist, other>>

\* the .carousel-next click handler (lines 200-209): the transition is
\* appended to the container's fx queue
ClickNext ==
    /\ pc = "ready"
    /\ Len(anim) < MaxAnim
    /\ anim' = Append(anim, nextTarget(scrollLeft, dom, viewport))
    /\ event' = NoEvent
    /\ run' = IF run # Untracked /\ AtRest /\ run * ItemWidth <= maxScrollLeft(dom, viewport)
              THEN run + 1 ELSE Untracked
    /\ UNCHANGED <<cache, favs, pc, products, dom, viewport, scrollLeft,
                   fetches, hist, other>>

ClickPrev ==
    /\ pc = "ready"
    /\ Len(anim) < MaxAnim
    /\ anim' = Append(anim, prevTarget(scrollLeft, dom))
    /\ event' = NoEvent
    /\ run' = Untracked
    /\ UNCHANGED <<cache, favs, pc, products, dom, viewport, scrollLeft,
                   fetches, hist, other>>

\* one tick of the running transition: the offset moves toward the target
\* and the transition is dequeued when the target is reached
AnimTick ==
    /\ anim # <<>>
    /\ LET target == Head(anim)
           next == IF target >= scrollLeft
                   THEN Min(scrollLeft + Frame, target)
                   ELSE Max(scrollLeft - Frame, target)
       IN /\ scrollLeft' = next
          /\ anim' = IF next = target THEN Tail(anim) ELSE anim
    /\ UNCHANGED <<cache, favs, pc, products, dom, viewport, event, fetches,
                   hist, run, other>>

ClickItem(i) ==
    /\ pc = "ready"
    /\ event' = [name |-> "item", item |-> i, emits |-> itemClick(products, dom, i)]
    /\ UNCHANGED <<cache, favs, pc, products, dom, viewport, scrollLeft, anim,
                   fetches, hist, run, other>>

ClickFav(i) ==
    /\ pc = "ready"
    /\ LET after == favClick(dom, favs, i)
       IN /\ dom' = after.dom
          /\ favs' = after.favs
    /\ event' = [name |-> "fav", item |-> i,
                 emits |-> favClickEmits(products, dom, i)]
    /\ UNCHANGED <<cache, pc, products, viewport, scrollLeft, anim, fetches,
                   hist, run, other>>

\* the page is reloaded: a fresh document, the same localStorage
Reload ==
    /\ pc # "start"
    /\ Len(hist) < MaxLoads
    /\ pc' = "start"
    /\ products' = <<>>
    /\ dom' = <<>>
    /\ scrollLeft' = 0
    /\ anim' = <<>>
    /\ event' = NoEvent
    /\ run' = 0
    /\ UNCHANGED <<cache, favs, viewport, fetches, hist, other>>

\* init() of a second page, opened once the product cache is stored: it
\* renders the cached products and restores the favorites stored by then
OtherOpen ==
    /\ other.pc = "closed"
    /\ JSONparse(cache).kind = "value"
    /\ other' = [pc |-> "ready",
                 products |-> JSONparse(cache).val,
                 dom |-> render(JSONparse(cache).val, favs)]
    /\ UNCHANGED <<cache, favs, pc, products, dom, viewport, scrollLeft, anim,
                   event, fetches, hist, run>>

\* the .carousel-fav click handler of the second page, on its item i
OtherClickFav(i) ==
    /\ other.pc = "ready"
    /\ LET after == favClick(other.dom, favs, i)
       IN /\ other' = [other EXCEPT !.dom = after.dom]
          /\ favs' = after.favs
    /\ UNCHANGED <<cache, pc, products, dom, viewport, scrollLeft, anim,
                   event, fetches, hist, run>>

Next ==
    \/ InitRun
    \/ FetchFail
    \/ FetchOk
    \/ ClickNext
    \/ ClickPrev
    \/ AnimTick
    \/ \E i \in 1..Len(dom) : ClickItem(i)
    \/ \E i \in 1..Len(dom) : ClickFav(i)
    \/ Reload

\* the page with every handler, in a container that shows the whole track
Spec == Init /\ [][Next]_vars

\* the page in a narrow container, with the clicks that land on the two
\* navigation buttons: the item and favorite handlers (lines 221-244)
\* neither read nor write scrollLeft or the fx queue
NextScroll ==
    \/ InitRun
    \/ FetchFail
    \/ FetchOk
    \/ ClickNext
    \/ ClickPrev
    \/ AnimTick
    \/ Reload

SpecScroll == InitScroll /\ [][NextScroll]_vars

\* the page started on a store whose favorites sequence names no id twice
InitDistinct ==
    /\ Init
    /\ \A j, k \in 1..Len(storedFavorites(favs)) :
          j # k => ToStr(storedFavorites(favs)[j]) # ToStr(storedFavorites(favs)[k])

SpecDistinct == InitDistinct /\ [][Next]_vars

\* two pages on one storage that starts empty: the first fetches and caches
\* the products, the second opens from the cache; favorite clicks of the
\* two pages interleave, each handler running to completion
InitTabs ==
    /\ cache = Absent
    /\ favs = Absent
    /\ viewport = WholeTrack
    /\ InitPage

NextTabs ==
    \/ InitRun
    \/ FetchFail
    \/ FetchOk
    \/ OtherOpen
    \/ \E i \in 1..Len(dom) : ClickFav(i)
    \/ \E i \in 1..Len(other.dom) : OtherClickFav(i)

SpecTabs == InitTabs /\ [][NextTabs]_vars

----------------------------------------------------------------------------
(* Properties *)

\* An id occurs in a favorites sequence when an entry of the sequence names
\* it the way the page writes identifiers, as the text of data-id: the
\* membership test the page itself makes at render time (line 249).
IdOccurs(id, f) == \E k \in 1..Len(f) : ToStr(f[k]) = ToStr(id)

\* the set of ids a favorites sequence holds
Membership(f) == {ToStr(f[k]) : k \in 1..Len(f)}

Favorites == storedFavorites(favs)

\* C1: once initialization has completed, and after every favorite toggle,
\* a rendered item carries the favorited class if and only if its id occurs
\* in the favorites sequence in storage, whatever favorites sequence storage
\* held at the start.
C1_FavoritedIffStored ==
    pc = "ready" =>
        \A i \in 1..Len(dom) :
            dom[i].favorited <=> IdOccurs(products[i].id, Favorites)

\* C2: starting from a store without a product cache, when the first
\* initialization fetched successfully, the next one reads the cache: one
\* fetch in total, and the sequence rendered is the one the first cached.
C2_OneFetchThenCache ==
    (Len(hist) >= 2 /\ hist[1].src = "fetch" /\ hist[1].end = "ready") =>
        /\ fetches = 1
        /\ hist[2].src = "cache"
        /\ hist[2].end = "ready"
        /\ hist[2].shown = hist[1].shown
        /\ (Len(hist) = 2 /\ pc = "ready") =>
              /\ products = hist[1].shown
              /\ Len(dom) = Len(hist[1].shown)
              /\ \A i \in 1..Len(dom) :
                    dom[i].dataId = ToStr(hist[1].shown[i].id)

\* a second page load is ready, showing two or more products, after a first
\* one that fetched them
C2_SecondLoadFromCache ==
    /\ Len(hist) = 2
    /\ hist[1].src = "fetch"
    /\ hist[1].end = "ready"
    /\ pc = "ready"
    /\ Len(products) >= 2
    /\ fetches = 1

\* C3: in every state after initialization and for every rendered item, two
\* clicks in a row on the item's favorite control leave the stored favorites
\* with the membership they had and the item's favorited class as it was.
C3_ToggleTwice ==
    pc = "ready" =>
        \A i \in 1..Len(dom) :
            LET once == favClick(dom, favs, i)
                twice == favClick(once.dom, once.favs, i)
            IN /\ Membership(storedFavorites(twice.favs)) = Membership(Favorites)
               /\ twice.dom[i].favorited = dom[i].favorited

\* a toggle has run on an item that is now favorited and stored twice
C3_ToggledWithDuplicates ==
    /\ pc = "ready"
    /\ event.name = "fav"
    /\ dom[event.item].favorited
    /\ \E j, k \in 1..Len(Favorites) :
          /\ j # k
          /\ Favorites[j] = Favorites[k]
          /\ ToStr(Favorites[j]) = dom[event.item].dataId

\* C4: an initialization of a reloaded page that follows a completed one
\* issues no fetch, leaves the stored favorites as they are, and marks
\* favorited exactly the rendered items whose id occurs in them; stored ids
\* without a rendered item are passed over.
C4_ReloadRestores ==
    [][(pc = "start" /\ hist # <<>> /\ Last(hist).end = "ready") =>
          /\ pc' = "ready"
          /\ fetches' = fetches
          /\ favs' = favs
          /\ \A i \in 1..Len(dom') :
                dom'[i].favorited <=> IdOccurs(products'[i].id, Favorites)]_vars

\* after a reload and before any click, an item is favorited whose id only a
\* toggle of the earlier page load can have stored, and storage also holds an
\* id without a rendered item
C4_ToggledThenReloaded ==
    /\ pc = "ready"
    /\ Len(hist) = 2
    /\ hist[1].end = "ready"
    /\ event = NoEvent
    /\ \E i \in 1..Len(dom) :
          /\ dom[i].favorited
          /\ \A v \in FavValues : ToStr(v) # dom[i].dataId
    /\ \E k \in 1..Len(Favorites) :
          \A i \in 1..Len(dom) : ToStr(Favorites[k]) # dom[i].dataId

\* C5: a click on a favorite control emits nothing: no window is opened and
\* the item-click handler does not run.
C5_ToggleDoesNotNavigate ==
    event.name = "fav" => event.emits = <<>>

\* a favorite control was clicked on an item whose own click opens a window
C5_ToggledLinkedItem ==
    /\ event.name = "fav"
    /\ itemClick(products, dom, event.item)[1].op = "window.open"

\* C6: with N items of width W in a container that shows K of them, Next
\* clicks made from offset 0, each once the page is at rest, leave the offset
\* at (N-K)*W after N-K clicks, and a further click leaves it there.
C6_NextReachesEnd ==
    (pc = "ready" /\ run # Untracked /\ AtRest
        /\ viewport % ItemWidth = 0 /\ Len(dom) * ItemWidth >= viewport) =>
        LET N == Len(dom)
            K == viewport \div ItemWidth
        IN scrollLeft = Min(run, N - K) * ItemWidth

\* N-K >= 2 Next clicks and one more have been made, and the page rests at
\* the end of the track
C6_ClickedPastEnd ==
    /\ pc = "ready"
    /\ AtRest
    /\ viewport % ItemWidth = 0
    /\ Len(dom) * ItemWidth - viewport >= 2 * ItemWidth
    /\ run * ItemWidth = Len(dom) * ItemWidth - viewport + ItemWidth
    /\ scrollLeft = Len(dom) * ItemWidth - viewport

\* C7: an initialization that finds an unparseable value under the
\* product-cache key treats the cache as absent and fetches.
C7_CorruptCacheFetches ==
    (pc # "start" /\ cache.kind = "corrupt") => Last(hist).src = "fetch"

FetchCount == Cardinality({k \in 1..Len(hist) : hist[k].src = "fetch"})

\* what holds once a fetch has failed, and of the initializations on record
FailedFetchState ==
    /\ fetches = FetchCount
    /\ (pc = "failed" /\ Last(hist).src = "fetch") =>
          /\ cache = Absent
          /\ products = <<>>
          /\ dom = <<>>
          /\ event = NoEvent
          /\ ~ENABLED (ClickNext \/ ClickPrev)
          /\ ~ENABLED (InitRun \/ FetchOk \/ FetchFail)
    /\ \A k \in 1..(Len(hist) - 1) :
          (hist[k].src = "fetch" /\ hist[k].end = "failed") =>
              hist[k + 1].src = "fetch"

\* C8: when the cache is absent and the response is not ok, initialization
\* ends in failure and changes nothing else: nothing is written under the
\* product-cache key, nothing is rendered, no handler is bound and no further
\* fetch is issued; the next initialization fetches again.
C8_FailedFetch ==
    /\ []FailedFetchState
    /\ [][(pc = "fetching" /\ pc' = "failed") =>
            UNCHANGED <<cache, favs, products, dom, viewport, scrollLeft, anim,
                        event, fetches, run>>]_vars

\* a fetch has failed, the page was reloaded, and the second initialization
\* fetched again and failed again
C8_FailedTwice ==
    /\ pc = "failed"
    /\ Len(hist) = 2
    /\ hist[1].src = "fetch"
    /\ hist[1].end = "failed"
    /\ hist[2].src = "fetch"
    /\ fetches = 2

\* C9: an initialization that finds a product sequence under the
\* product-cache key, empty or not, issues no fetch, leaves the cache as it
\* is and renders the cached products in their order.
C9_CacheHit ==
    [][(pc = "start" /\ cache.kind = "json") =>
          /\ pc' = "ready"
          /\ fetches' = fetches
          /\ cache' = cache
          /\ products' = cache.val
          /\ Len(dom') = Len(cache.val)
          /\ \A i \in 1..Len(dom') : dom'[i].dataId = ToStr(cache.val[i].id)]_vars

\* a page initialized from a cache of two or more products
C9_RenderedFromCache ==
    /\ pc = "ready"
    /\ Last(hist).src = "cache"
    /\ cache.kind = "json"
    /\ Len(cache.val) >= 2
    /\ Len(dom) = Len(cache.val)

\* C10: a click on a rendered item, whatever the type of its product's id,
\* finds the product the item was rendered from: with a url exactly one
\* window is opened on it, without one an error is logged and nothing else
\* happens; the page goes on handling events.
C10_ItemClickResolves ==
    event.name = "item" =>
        LET product == products[event.item]
        IN /\ pc = "ready"
           /\ Len(event.emits) = 1
           /\ IF Truthy(product.url)
              THEN event.emits[1] = open(product.url)
              ELSE event.emits[1].op = "console.error"

\* the entries of a favorites sequence that name another id than text t, in
\* their order
Others(f, t) == SelectSeq(f, LAMBDA v : ToStr(v) # t)

\* what a favorite click on item i leaves besides the item's own class: its
\* id stored if the item is now favorited, the entries of every other id in
\* their order, the other items' classes, the product cache and the offset
ToggleFrame(i) ==
    /\ favs'.kind = "json"
    /\ dom'[i].favorited = ~dom[i].favorited
    /\ dom'[i].favorited => IdOccurs(products[i].id, favs'.val)
    /\ Others(favs'.val, dom[i].dataId) = Others(Favorites, dom[i].dataId)
    /\ Len(dom') = Len(dom)
    /\ \A j \in 1..Len(dom) : j # i => dom'[j] = dom[j]
    /\ UNCHANGED <<cache, scrollLeft, anim>>

\* C11: a favorite click on item X leaves the favorites persisted and changes
\* only X's membership: X's id is stored if X is now favorited and no
\* occurrence of it remains if not; every other id keeps its occurrences and
\* their order, no other item's class changes, and the product cache and the
\* scroll offset stay as they are.
C11_ToggleChangesOnlyItsId ==
    [][\A i \in 1..Len(dom) :
          ClickFav(i) =>
              /\ ToggleFrame(i)
              /\ ~dom'[i].favorited => ~IdOccurs(products[i].id, favs'.val)]_vars

\* the part of C11 the handler keeps
C11_ToggleFrameHolds ==
    [][\A i \in 1..Len(dom) : ClickFav(i) => ToggleFrame(i)]_vars

\* C12: whatever Next and Previous clicks were made, also while a transition
\* was running, and for every item count and viewport width (a track that
\* fits in the viewport included), the scroll offset and the target of every
\* transition lie between 0 and the maximum offset.
C12_OffsetAndTargetsInRange ==
    /\ 0 <= scrollLeft
    /\ scrollLeft <= maxScrollLeft(dom, viewport)
    /\ \A k \in 1..Len(anim) :
          /\ 0 <= anim[k]
          /\ anim[k] <= maxScrollLeft(dom, viewport)

\* a click was made while a transition was running, the offset between two
\* item boundaries
C12_ClickedMidTransition ==
    /\ pc = "ready"
    /\ Len(anim) >= 2
    /\ scrollLeft % ItemWidth # 0
    /\ maxScrollLeft(dom, viewport) > 0

\* C13: a Next click targets min(p + W, maximum offset) and a Previous click
\* max(p - W, 0), with W the width of one item and p the scroll offset at the
\* moment of the click, also when a transition is running.
C13_TargetsFromLiveOffset ==
    [][/\ ClickNext =>
             /\ anim' = Append(anim, Min(scrollLeft + ItemWidth,
                                         maxScrollLeft(dom, viewport)))
             /\ scrollLeft' = scrollLeft
       /\ ClickPrev =>
             /\ anim' = Append(anim, Max(scrollLeft - ItemWidth, 0))
             /\ scrollLeft' = scrollLeft]_vars

\* a click made in the middle of a transition queued a target that is one
\* width from the offset of that moment, not from an item boundary
C13_TargetOffBoundary ==
    /\ pc = "ready"
    /\ Len(anim) = 2
    /\ anim[2] % ItemWidth # 0
    /\ anim[2] # maxScrollLeft(dom, viewport)
    /\ anim[2] # anim[1]

\* C14: scroll transitions do not accumulate: at most one transition is
\* running or pending on the track, also when a button is clicked while a
\* transition runs.
C14_OneTransitionAtMost == Len(anim) <= 1

\* C15: an initialization that fetches writes the whole fetched sequence
\* under the product-cache key before it renders and binds the handlers, so
\* in every state where the carousel is rendered the product cache is in
\* storage and holds the sequence that is rendered.
C15_RenderedImpliesCached ==
    pc = "ready" =>
        /\ cache.kind = "json"
        /\ cache.val = products
        /\ Last(hist).shown = products
        /\ Len(dom) = Len(products)
        /\ \A i \in 1..Len(dom) : dom[i].dataId = ToStr(cache.val[i].id)

\* the carousel is rendered by an initialization that fetched two or more
\* products
C15_RenderedAfterFetch ==
    /\ pc = "ready"
    /\ Last(hist).src = "fetch"
    /\ Len(products) >= 2
    /\ fetches >= 1

\* no id is named by two entries of a favorites sequence
NoRepeat(f) == \A j, k \in 1..Len(f) : j # k => ToStr(f[j]) # ToStr(f[k])

\* C16: with one page on the storage, products of pairwise distinct ids and
\* a stored favorites sequence that names no id twice at the start, the
\* stored favorites sequence names no id twice after any toggles and reloads.
C16_NoIdStoredTwice == NoRepeat(Favorites)

\* the same with entries compared as values, a number and a string that write
\* the same id counted as two ids
C16_NoValueStoredTwice ==
    \A j, k \in 1..Len(Favorites) : j # k => Favorites[j] # Favorites[k]

\* C17: with two pages initialized on the same storage and their favorite
\* handlers executed in any interleaving, each handler reads the stored
\* favorites before it writes them, so a toggle of item X in one page
\* neither adds nor removes an entry of another id Y, whichever page wrote it.
C17_ToggleKeepsOtherIds ==
    [][/\ \A i \in 1..Len(dom) :
             ClickFav(i) =>
                 Others(storedFavorites(favs'), dom[i].dataId)
                     = Others(Favorites, dom[i].dataId)
       /\ \A i \in 1..Len(other.dom) :
             OtherClickFav(i) =>
                 Others(storedFavorites(favs'), other.dom[i].dataId)
                     = Others(Favorites, other.dom[i].dataId)]_vars

\* each page has favorited an item the other page shows as not favorited,
\* and both ids are stored
C17_BothPagesToggled ==
    /\ pc = "ready"
    /\ other.pc = "ready"
    /\ \E i, j \in 1..Len(dom) :
          /\ i # j
          /\ dom[i].favorited /\ ~other.dom[i].favorited
          /\ other.dom[j].favorited /\ ~dom[j].favorited
          /\ IdOccurs(products[i].id, Favorites)
          /\ IdOccurs(products[j].id, Favorites)

====
